---- MODULE Spec2Model ----
(***************************************************************************)
(* A model of llvm_mode/afl-llvm-pass.so.cc: the AFLCoverage module pass   *)
(* (runOnModule) and the run-time behaviour of the sequence it injects.    *)
(*                                                                         *)
(* Two state machines share the variables below.                           *)
(*   Spec     the pass: banner, ratio check, the loop over the functions   *)
(*            and basic blocks of the module, the summary.                 *)
(*   SpecRun  the instrumented program: threads executing the injected     *)
(*            load / store / store sequence on the coverage map.           *)
(***************************************************************************)
EXTENDS Integers, Sequences, FiniteSets, TLC

\* ------------------------------------------------------------------ bounds

\* Basic blocks of the function whose control-flow graph is enumerated.
NumBlocks == 2

\* Successors of a terminator (0: ret, 1: br, 2: conditional br, more: switch).
MaxSucc == 2

\* Entries of the allow-list.
MaxWL == 2

\* Characters of the AFL_INST_RATIO string.
MaxRatioLen == 3

\* Capacity of the coverage map, in 8-byte slots.
MapSlots == 3

\* Executions of the injected sequence that a run starts.
MaxExec == 4

\* Threads of the instrumented program.
NumThreads == 2

\* ----------------------------------------------------------------- helpers

\* The sequences over S of up to n elements. A string is a sequence of
\* one-character strings.
SeqsUpTo(S, n) == UNION {[1..k -> S] : k \in 0..n}

\* ------------------------------------------------------- the pass: its state

VARIABLES
  M,             \* the module: a sequence of functions, each a sequence of blocks
  myWhitelist,   \* AFLCoverage::myWhitelist, filled by the constructor
  env,           \* the environment runOnModule reads: getenv and isatty(2)
  pc,            \* position of runOnModule
  be_quiet,      \* char be_quiet
  inst_ratio,    \* unsigned int inst_ratio
  AFLMapPtr,     \* whether the __afl_area_ptr global has been added to M
  fi, bi,        \* the loop position: function index, block index
  inst_blocks,   \* int inst_blocks
  injected,      \* the blocks <<f, b>> that received the injected sequence
  out,           \* the messages written to the diagnostic stream
  ret,           \* the value runOnModule returned ("none" before it returns)
  \* the instrumented program
  threads,       \* the threads that run
  map,           \* the coverage map, slot -> 64-bit value
  tpc,           \* per thread: position in the injected sequence
  Counter,       \* per thread: the value loaded from slot 0
  cur,           \* per thread: the block whose sequence it executes
  started,       \* sequences started so far
  log,           \* identities of the blocks executed, in the order they started
  lastStore,     \* the latest identity store: offset read, byte offset, in the map or not
  crashed        \* an out-of-bounds store ended the program

passVars == <<M, myWhitelist, env, pc, be_quiet, inst_ratio, AFLMapPtr, fi, bi,
              inst_blocks, injected, out, ret>>
runVars == <<threads, map, tpc, Counter, cur, started, log, lastStore, crashed>>
vars == <<passVars, runVars>>

\* ------------------------------------------------------------ debug locations

\* A debug location: has = the instruction carries one; file = its file name;
\* inl = it has an inlined-at location; inlFile = that location's file name.
NoLoc == [has |-> FALSE, file |-> <<>>, inl |-> FALSE, inlFile |-> <<>>]

DirectLoc(f) == [has |-> TRUE, file |-> f, inl |-> FALSE, inlFile |-> <<>>]

InlinedLoc(f, g) == [has |-> TRUE, file |-> f, inl |-> TRUE, inlFile |-> g]

\* Sample file names: "", "f", "/f", "/b", "fb".
FileNames == { <<>>, <<"f">>, <<"/", "f">>, <<"/", "b">>, <<"f", "b">> }

\* Sample allow-list lines: "f", "/f", and the empty line.
WLEntries == { <<"f">>, <<"/", "f">>, <<>> }

DebugLocs == {NoLoc} \cup {DirectLoc(f) : f \in FileNames}
                     \cup {InlinedLoc(f, g) : f \in FileNames, g \in FileNames}

\* ------------------------------------------------------ the allow-list filter

\* A faulty variant: the inlined-at file name is taken whenever there is one.
ResolveFile_InlinedFirst(loc) ==
  IF loc.inl THEN loc.inlFile ELSE loc.file

\* The file name the filter compares: the location's own, or, when that is
\* empty and an inlined-at location exists, the inlined-at location's.
ResolveFile(loc) ==
  IF loc.file = <<>> /\ loc.inl THEN loc.inlFile ELSE loc.file

\* A faulty variant: the comparison starts at position 0, a prefix comparison.
EndsWith_Prefix(F, E) ==
  /\ Len(F) >= Len(E)
  /\ SubSeq(F, 1, Len(E)) = E

\* std::string::compare(length() - it->length(), it->length(), *it) == 0,
\* under the guard length() >= it->length().
EndsWith(F, E) ==
  /\ Len(F) >= Len(E)
  /\ SubSeq(F, Len(F) - Len(E) + 1, Len(F)) = E

\* bool instrumentBlock: false unless the instruction has a debug location,
\* the resolved file name is not empty and it ends in an allow-list entry.
InstrumentBlock(wl, loc) ==
  /\ loc.has
  /\ ResolveFile(loc) # <<>>
  /\ \E i \in DOMAIN wl : EndsWith(ResolveFile(loc), wl[i])

\* The filter is bypassed when the allow-list is empty.
FilterKeeps(wl, loc) ==
  wl = <<>> \/ InstrumentBlock(wl, loc)

\* ------------------------------------------------------- target selection

\* predecessors(&BB): the blocks of F with BB among their successors.
Preds(F, b) ==
  {p \in DOMAIN F : \E i \in DOMAIN F[p].succs : F[p].succs[i] = b}

\* int count: the successors of Pred.
SuccCount(F, p) == Len(F[p].succs)

\* A faulty variant: the flag follows the latest predecessor (more_than_one =
\* count > 1), so that every predecessor must have more than one successor.
MoreThanOne_AllPreds(F, b) ==
  IF Preds(F, b) = {} THEN -1
  ELSE IF \A p \in Preds(F, b) : SuccCount(F, p) > 1 THEN 1
  ELSE 0

\* A faulty variant: count > 0 where the code has count > 1.
MoreThanOne_AnySucc(F, b) ==
  IF Preds(F, b) = {} THEN -1
  ELSE IF \E p \in Preds(F, b) : SuccCount(F, p) > 0 THEN 1
  ELSE 0

\* int more_than_one after the loop over the predecessors: -1 with no
\* predecessor, 1 once a predecessor has more than one successor, else 0.
MoreThanOne(F, b) ==
  IF Preds(F, b) = {} THEN -1
  ELSE IF \E p \in Preds(F, b) : SuccCount(F, p) > 1 THEN 1
  ELSE 0

\* BlockAddress::get(&F, &BB) is not null.
Addressable(BB) == BB.addr

\* One iteration of the loop body reaches the injection.
Instruments(wl, F, b) ==
  /\ FilterKeeps(wl, F[b].loc)
  /\ MoreThanOne(F, b) = 1
  /\ Addressable(F[b])

\* ------------------------------------------------- the instrumentation ratio

\* The characters of the sample AFL_INST_RATIO strings. No string holds a '-'
\* or a run of digits that exceeds an unsigned int, the inputs on which the
\* result of the %u conversion does not fit the object it is stored in.
Digits == {"0", "1", "5"}

RatioChars == Digits \cup {"a", " ", "+"}

DigitVal(c) == CASE c = "0" -> 0 [] c = "1" -> 1 [] c = "5" -> 5

\* The white space a conversion skips first.
RECURSIVE SkipSpace(_)
SkipSpace(s) ==
  IF s # <<>> /\ Head(s) = " " THEN SkipSpace(Tail(s)) ELSE s

\* The longest run of decimal digits at the start of s: how many, and their value.
RECURSIVE ReadDigits(_, _, _)
ReadDigits(s, n, val) ==
  IF s # <<>> /\ Head(s) \in Digits
  THEN ReadDigits(Tail(s), n + 1, val * 10 + DigitVal(Head(s)))
  ELSE [n |-> n, val |-> val]

\* sscanf(s, "%u", &x) with x = old before the call: the value returned (1: one
\* item converted, 0: matching failure, -1: EOF, the input ended first) and x
\* after the call. What follows the digits is left unread.
SscanfU(s, old) ==
  LET t == SkipSpace(s)
      u == IF t # <<>> /\ Head(t) = "+" THEN Tail(t) ELSE t
      d == ReadDigits(u, 0, 0)
  IN  IF d.n > 0 THEN [rc |-> 1, val |-> d.val]
      ELSE [rc |-> IF u = <<>> THEN -1 ELSE 0, val |-> old]

\* A faulty variant: the test !inst_ratio is missing.
BadRatio_AllowsZero(r) ==
  r.rc # 1 \/ r.val > 100

\* The condition of the FATAL.
BadRatio(r) ==
  r.rc # 1 \/ r.val = 0 \/ r.val > 100

\* ----------------------------------------------------------------- messages

Msg(kind, n, mode, ratio) ==
  [kind |-> kind, n |-> n, mode |-> mode, ratio |-> ratio]

BannerMsg == Msg("SAYF", 0, "", 0)

FatalMsg == Msg("FATAL", 0, "", 0)

WarnMsg == Msg("WARNF", 0, "", 0)

\* The build mode the summary names, from the environment.
Mode(e) ==
  IF e.AFL_HARDEN THEN "hardened"
  ELSE IF e.AFL_USE_ASAN \/ e.AFL_USE_MSAN THEN "ASAN/MSAN"
  ELSE "non-hardened"

\* A faulty variant: the summary line also when nothing was instrumented.
SummaryMsg_NoWarning(n, e, ratio) ==
  Msg("OKF", n, Mode(e), ratio)

\* The message the pass ends with when it is not quiet.
SummaryMsg(n, e, ratio) ==
  IF n = 0 THEN WarnMsg ELSE Msg("OKF", n, Mode(e), ratio)

\* ------------------------------------------------------ modules, environments

Block(succs, loc, addr) == [succs |-> succs, loc |-> loc, addr |-> addr]

\* The functions of n blocks. Block 1 is the entry block, which no terminator
\* names; a terminator names up to MaxSucc blocks, one block more than once
\* when several of its edges lead there.
FunctionsOf(n, locs, addrs) ==
  [1..n -> [succs : SeqsUpTo(2..n, MaxSucc), loc : locs, addr : addrs]]

\* if/else: the entry branches to blocks 2 and 3, which both fall into block 4.
Diamond ==
  << Block(<<2, 3>>, NoLoc, TRUE), Block(<<4>>, NoLoc, TRUE),
     Block(<<4>>, NoLoc, TRUE), Block(<<>>, NoLoc, TRUE) >>

\* A loop: the entry falls into the header, whose body branches back to it.
Loop ==
  << Block(<<2>>, NoLoc, TRUE), Block(<<3, 2>>, NoLoc, TRUE),
     Block(<<>>, NoLoc, FALSE) >>

Unset == [set |-> FALSE, val |-> <<>>]

SetTo(s) == [set |-> TRUE, val |-> s]

\* What runOnModule reads of its environment: isatty(2) and five variables.
Env(tty, quiet, ratio, harden, asan, msan) ==
  [tty |-> tty, AFL_QUIET |-> quiet, AFL_INST_RATIO |-> ratio,
   AFL_HARDEN |-> harden, AFL_USE_ASAN |-> asan, AFL_USE_MSAN |-> msan]

PlainEnv(ratio) == Env(TRUE, FALSE, ratio, FALSE, FALSE, FALSE)

\* The instrumented program has not started while the pass runs.
ZeroMap == [s \in 0..(MapSlots - 1) |-> 0]

NoStore == [off |-> 0, byte |-> 0, hit |-> TRUE]

RunIdle ==
  /\ threads = {}
  /\ map = ZeroMap
  /\ tpc = <<>>
  /\ Counter = <<>>
  /\ cur = <<>>
  /\ started = 0
  /\ log = <<>>
  /\ lastStore = NoStore
  /\ crashed = FALSE

\* Control flow: every function of up to NumBlocks blocks, alone in its module,
\* and the module of no function; no allow-list.
InitControlFlow ==
  /\ M \in {<<>>} \cup {<<F>> : F \in UNION {FunctionsOf(n, {NoLoc}, BOOLEAN) : n \in 0..NumBlocks}}
  /\ myWhitelist = <<>>
  /\ env \in {PlainEnv(r) : r \in {Unset, SetTo(<<"1">>), SetTo(<<"1", "0", "0">>)}}

\* Debug locations: a block reached by one or by two edges of the entry block,
\* with every debug location, under every allow-list of up to MaxWL lines.
InitLocations ==
  /\ M \in {<< <<Block(s, NoLoc, TRUE), Block(<<>>, l, a)>> >> :
               s \in {<<2>>, <<2, 2>>}, l \in DebugLocs, a \in BOOLEAN}
  /\ myWhitelist \in SeqsUpTo(WLEntries, MaxWL)
  /\ env = PlainEnv(Unset)

\* Ratio strings: every string of up to MaxRatioLen characters.
InitRatios ==
  /\ M = <<Diamond>>
  /\ myWhitelist = <<>>
  /\ env \in {PlainEnv(SetTo(s)) : s \in SeqsUpTo(RatioChars, MaxRatioLen)}

\* Output: every setting of the terminal and of the flags, on a module of no
\* function, of one function, and of several (one of them a declaration).
InitOutputs ==
  /\ M \in {<<>>, <<Diamond>>, <<Loop, <<>>, Diamond>>, << <<>>, <<Block(<<>>, NoLoc, TRUE)>> >>}
  /\ myWhitelist \in {<<>>, << <<"f">> >>}
  /\ env \in {Env(t, q, r, h, a, m) : t \in BOOLEAN, q \in BOOLEAN,
                 r \in {Unset, SetTo(<<"5">>)}, h \in BOOLEAN, a \in BOOLEAN,
                 m \in BOOLEAN}

\* The state when runOnModule is entered.
Init ==
  /\ InitControlFlow \/ InitLocations \/ InitRatios \/ InitOutputs
  /\ pc = "banner"
  /\ be_quiet = 0
  /\ inst_ratio = 100
  /\ AFLMapPtr = FALSE
  /\ fi = 1
  /\ bi = 1
  /\ inst_blocks = 0
  /\ injected = {}
  /\ out = <<>>
  /\ ret = "none"
  /\ RunIdle

\* ------------------------------------------------------- the pass: its steps

\* Show a banner: char be_quiet.
Banner ==
  /\ pc = "banner"
  /\ IF env.tty /\ ~env.AFL_QUIET
     THEN out' = Append(out, BannerMsg) /\ be_quiet' = 0
     ELSE out' = out /\ be_quiet' = 1
  /\ pc' = "ratio"
  /\ UNCHANGED <<M, myWhitelist, env, inst_ratio, AFLMapPtr, fi, bi, inst_blocks,
                 injected, ret, runVars>>

\* Decide instrumentation ratio; then declare __afl_area_ptr and enter the loop.
DecideRatio ==
  /\ pc = "ratio"
  /\ LET r == IF env.AFL_INST_RATIO.set
              THEN SscanfU(env.AFL_INST_RATIO.val, 100)
              ELSE [rc |-> 1, val |-> 100]
     IN  /\ inst_ratio' = r.val
         /\ IF env.AFL_INST_RATIO.set /\ BadRatio(r)
            THEN /\ pc' = "fatal"
                 /\ out' = Append(out, FatalMsg)
                 /\ AFLMapPtr' = AFLMapPtr
            ELSE /\ pc' = "loop"
                 /\ out' = out
                 /\ AFLMapPtr' = TRUE
  /\ UNCHANGED <<M, myWhitelist, env, be_quiet, fi, bi, inst_blocks, injected, ret,
                 runVars>>

\* One iteration of for (auto &BB : F): filter, selection, addressability,
\* injection, inst_blocks++.
VisitBlock ==
  /\ pc = "loop"
  /\ fi <= Len(M)
  /\ bi <= Len(M[fi])
  /\ IF Instruments(myWhitelist, M[fi], bi)
     THEN /\ injected' = injected \cup {<<fi, bi>>}
          /\ inst_blocks' = inst_blocks + 1
     ELSE UNCHANGED <<injected, inst_blocks>>
  /\ bi' = bi + 1
  /\ UNCHANGED <<M, myWhitelist, env, pc, be_quiet, inst_ratio, AFLMapPtr, fi, out,
                 ret, runVars>>

\* for (auto &F : M): the blocks of F are exhausted.
NextFunction ==
  /\ pc = "loop"
  /\ fi <= Len(M)
  /\ bi > Len(M[fi])
  /\ fi' = fi + 1
  /\ bi' = 1
  /\ UNCHANGED <<M, myWhitelist, env, pc, be_quiet, inst_ratio, AFLMapPtr,
                 inst_blocks, injected, out, ret, runVars>>

\* Say something nice, and return true.
Summary ==
  /\ pc = "loop"
  /\ fi > Len(M)
  /\ out' = IF be_quiet = 0
            THEN Append(out, SummaryMsg(inst_blocks, env, inst_ratio))
            ELSE out
  /\ ret' = "true"
  /\ pc' = "done"
  /\ UNCHANGED <<M, myWhitelist, env, be_quiet, inst_ratio, AFLMapPtr, fi, bi,
                 inst_blocks, injected, runVars>>

Next ==
  \/ Banner
  \/ DecideRatio
  \/ VisitBlock
  \/ NextFunction
  \/ Summary

Spec == Init /\ [][Next]_vars

\* ------------------------------------------- the injected sequence at run time

\* The module the instrumented program was built from, and the state
\* runOnModule left behind on it.
PassDone ==
  /\ M = <<Diamond>>
  /\ myWhitelist = <<>>
  /\ env = PlainEnv(Unset)
  /\ pc = "done"
  /\ be_quiet = 0
  /\ inst_ratio = 100
  /\ AFLMapPtr = TRUE
  /\ fi = 2
  /\ bi = 1
  /\ injected = {<<1, b>> : b \in {c \in DOMAIN Diamond : Instruments(<<>>, Diamond, c)}}
  /\ inst_blocks = Cardinality(injected)
  /\ out = <<BannerMsg, SummaryMsg(inst_blocks, env, 100)>>
  /\ ret = "true"

\* BlockAddress::get(&F, &BB), the identity the sequence of block b stores: a
\* code address, which lies above the map's size and above any count of
\* executions.
BlockAddr(b) == 8 * MapSlots + MaxExec + b[2]

Identities == {BlockAddr(b) : b \in injected}

\* A faulty variant: the byte offset wraps at the end of the map.
Shifted_Wrapped(c) == (c * 8) % (8 * MapSlots)

\* Shifted: Counter << 3, the byte offset of the identity store. The 64-bit
\* shift does not wrap on the values a run reaches here (all below 2^61).
Shifted(c) == c * 8

\* The byte offset lies in the map: an 8-byte store at it stays inside.
InMap(byte) == byte + 8 <= 8 * MapSlots

\* Incr: Counter + 1.
Incr(c) == c + 1

InitRun ==
  /\ PassDone
  /\ threads \in {1..k : k \in 1..NumThreads}
  /\ map = ZeroMap
  /\ tpc = [t \in threads |-> "idle"]
  /\ Counter = [t \in threads |-> 0]
  /\ cur = [t \in threads |-> <<1, 1>>]
  /\ started = 0
  /\ log = <<>>
  /\ lastStore = NoStore
  /\ crashed = FALSE

\* idx = map[0]: thread t reaches instrumented block b and loads the counter.
Load(t, b) ==
  /\ ~crashed
  /\ tpc[t] = "idle"
  /\ started < MaxExec
  /\ Counter' = [Counter EXCEPT ![t] = map[0]]
  /\ cur' = [cur EXCEPT ![t] = b]
  /\ tpc' = [tpc EXCEPT ![t] = "store"]
  /\ started' = started + 1
  /\ log' = Append(log, BlockAddr(b))
  /\ UNCHANGED <<map, lastStore, crashed, threads, passVars>>

\* map[idx] = rip: no bounds check. A store outside the map is undefined: it
\* ends the program, or lands on memory that is not the map and the run goes on.
StoreId(t) ==
  /\ ~crashed
  /\ tpc[t] = "store"
  /\ LET byte == Shifted(Counter[t])
     IN  /\ lastStore' = [off |-> Counter[t], byte |-> byte, hit |-> InMap(byte)]
         /\ IF InMap(byte)
            THEN /\ map' = [map EXCEPT ![byte \div 8] = BlockAddr(cur[t])]
                 /\ crashed' = FALSE
            ELSE /\ map' = map
                 /\ crashed' \in BOOLEAN
  /\ tpc' = [tpc EXCEPT ![t] = "incr"]
  /\ UNCHANGED <<Counter, cur, started, log, threads, passVars>>

\* map[0] = idx + 1.
StoreIdx(t) ==
  /\ ~crashed
  /\ tpc[t] = "incr"
  /\ map' = [map EXCEPT ![0] = Incr(Counter[t])]
  /\ tpc' = [tpc EXCEPT ![t] = "idle"]
  /\ UNCHANGED <<Counter, cur, started, log, lastStore, crashed, threads, passVars>>

NextRun ==
  \/ \E t \in threads, b \in injected : Load(t, b)
  \/ \E t \in threads : StoreId(t)
  \/ \E t \in threads : StoreIdx(t)

SpecRun == InitRun /\ [][NextRun]_vars

\* ======================================================== the properties

\* The blocks of the module, as <<function, block>>.
AllBlocks == UNION {{<<f, b>> : b \in DOMAIN M[f]} : f \in DOMAIN M}

\* The loop has been over block blk.
Visited(blk) ==
  \/ pc = "done"
  \/ pc = "loop" /\ (blk[1] < fi \/ (blk[1] = fi /\ blk[2] < bi))

BlockOf(blk) == M[blk[1]][blk[2]]

\* Some predecessor of the block has two or more successors.
HasBranchingPred(blk) ==
  \E p \in DOMAIN M[blk[1]] :
    /\ \E i \in DOMAIN M[blk[1]][p].succs : M[blk[1]][p].succs[i] = blk[2]
    /\ Len(M[blk[1]][p].succs) >= 2

\* The predecessors of the block.
PredsOf(blk) ==
  {p \in DOMAIN M[blk[1]] :
     \E i \in DOMAIN M[blk[1]][p].succs : M[blk[1]][p].succs[i] = blk[2]}

\* E is the tail of F: the last |E| characters of F are E.
IsTail(E, F) ==
  /\ Len(E) <= Len(F)
  /\ \A k \in 1..Len(E) : F[Len(F) - Len(E) + k] = E[k]

\* Some line of the allow-list is the tail of F.
Listed(F) == \E i \in DOMAIN myWhitelist : IsTail(myWhitelist[i], F)

\* The file name of a location as the two steps give it: the direct one when
\* it is not empty, otherwise the inlined-at one when there is one.
TwoStepFile(loc) ==
  IF loc.file # <<>> THEN loc.file
  ELSE IF loc.inl THEN loc.inlFile
  ELSE <<>>

\* C1: with no allow-list, an addressable block with a predecessor of two or
\* more successors always receives the injected sequence, under every accepted
\* ratio and wherever the block stands in the traversal.
C1_BranchTargetsInstrumented ==
  \A blk \in AllBlocks :
    (/\ Visited(blk)
     /\ myWhitelist = <<>>
     /\ BlockOf(blk).addr
     /\ HasBranchingPred(blk)) => blk \in injected

\* C1 happens: under ratio "1", a block with a one-successor predecessor and a
\* two-successor predecessor was instrumented.
C1_Witness ==
  /\ pc = "done"
  /\ myWhitelist = <<>>
  /\ env.AFL_INST_RATIO = SetTo(<<"1">>)
  /\ \E blk \in injected :
       /\ \E p \in PredsOf(blk) : Len(M[blk[1]][p].succs) = 1
       /\ \E p \in PredsOf(blk) : Len(M[blk[1]][p].succs) >= 2

\* C2: a block receives the injected sequence only if one of its predecessors
\* has more than one successor: never a block whose one predecessor has one
\* successor, never a block without predecessors.
C2_OnlyBranchTargets ==
  \A blk \in injected :
    /\ blk \in AllBlocks
    /\ HasBranchingPred(blk)
    /\ PredsOf(blk) # {}
    /\ ~(\E p \in DOMAIN M[blk[1]] :
           PredsOf(blk) = {p} /\ Len(M[blk[1]][p].succs) = 1)

\* C2 happens: the pass is over, nothing else stood in the way, and a block
\* whose one predecessor has one successor was left alone, like the entry.
C2_Witness ==
  /\ pc = "done"
  /\ myWhitelist = <<>>
  /\ \E blk \in AllBlocks \ injected :
       /\ BlockOf(blk).addr
       /\ \E p \in DOMAIN M[blk[1]] :
            PredsOf(blk) = {p} /\ Len(M[blk[1]][p].succs) = 1
       /\ <<blk[1], 1>> \notin injected
       /\ M[blk[1]][1].addr

\* C3: under an allow-list, a block with a resolved file name F receives the
\* sequence only if a line of the list is the tail of F; with the list ["f"],
\* a branch target in "/f" is instrumented and a block in "/b" never is.
C3_TailComparison ==
  myWhitelist # <<>> =>
    \A blk \in AllBlocks :
      LET loc == BlockOf(blk).loc
          F == TwoStepFile(loc)
      IN  (loc.has /\ F # <<>>) =>
            /\ blk \in injected => Listed(F)
            /\ (/\ myWhitelist = << <<"f">> >>
                /\ F = <<"/", "f">>
                /\ Visited(blk)
                /\ BlockOf(blk).addr
                /\ HasBranchingPred(blk)) => blk \in injected
            /\ (myWhitelist = << <<"f">> >> /\ F = <<"/", "b">>) => blk \notin injected

\* C3 happens: the list is ["f"] and a block in "/f", which no line equals, was
\* instrumented.
C3_Witness ==
  /\ pc = "done"
  /\ myWhitelist = << <<"f">> >>
  /\ \E blk \in injected : BlockOf(blk).loc = DirectLoc(<<"/", "f">>)

\* C4: under an allow-list, a block without a debug location, or without a
\* file name the two steps resolve, is kept by the filter: a branch target
\* that is addressable receives the sequence.
C4_DefaultKeep ==
  myWhitelist # <<>> =>
    \A blk \in AllBlocks :
      (/\ Visited(blk)
       /\ ~BlockOf(blk).loc.has \/ TwoStepFile(BlockOf(blk).loc) = <<>>
       /\ BlockOf(blk).addr
       /\ HasBranchingPred(blk)) => blk \in injected

RECURSIVE DecValue(_)
DecValue(s) ==
  IF s = <<>> THEN 0
  ELSE 10 * DecValue(SubSeq(s, 1, Len(s) - 1)) + DigitVal(s[Len(s)])

\* The largest number of a non-empty set of numbers.
Largest(S) == CHOOSE x \in S : \A y \in S : y <= x

\* The whole string is an integer in [1,100]: after any white space and an
\* optional '+', digits to the end of the string.
WholeInteger(s) ==
  LET sp == Largest({i \in 0..Len(s) : \A k \in 1..i : s[k] = " "})
      sg == IF sp < Len(s) /\ s[sp + 1] = "+" THEN sp + 1 ELSE sp
  IN  /\ sg < Len(s)
      /\ \A k \in (sg + 1)..Len(s) : s[k] \in Digits
      /\ DecValue(SubSeq(s, sg + 1, Len(s))) \in 1..100

\* The string starts, after any white space and an optional '+', with a run
\* of digits whose value is in [1,100]; what follows the run is ignored.
LeadingInteger(s) ==
  LET sp == Largest({i \in 0..Len(s) : \A k \in 1..i : s[k] = " "})
      sg == IF sp < Len(s) /\ s[sp + 1] = "+" THEN sp + 1 ELSE sp
      e  == Largest({i \in sg..Len(s) : \A k \in (sg + 1)..i : s[k] \in Digits})
  IN  e > sg /\ DecValue(SubSeq(s, sg + 1, e)) \in 1..100

\* The ratio check is behind.
RatioDecided == pc \notin {"banner", "ratio"}

\* C5 as stated: with the ratio string set the pass goes on only if the whole
\* string is an integer in [1,100], every other string is fatal, and the fatal
\* outcome leaves every block alone.
C5_WholeString ==
  (env.AFL_INST_RATIO.set /\ RatioDecided) =>
    /\ pc # "fatal" <=> WholeInteger(env.AFL_INST_RATIO.val)
    /\ pc = "fatal" => injected = {}

\* C5, amended: with the ratio string set the pass goes on exactly when the
\* string starts, after optional white space and an optional '+', with a run
\* of digits whose value is in [1,100] (characters after the run are ignored);
\* every other string is fatal, the fatal outcome is final and has modified no
\* block, and "1" and "100" are accepted.
C5_LeadingInteger ==
  (env.AFL_INST_RATIO.set /\ RatioDecided) =>
    /\ pc # "fatal" <=> LeadingInteger(env.AFL_INST_RATIO.val)
    /\ pc # "fatal" => inst_ratio \in 1..100
    /\ pc = "fatal" => (injected = {} /\ inst_blocks = 0 /\ ~AFLMapPtr /\ ~ENABLED Next)
    /\ env.AFL_INST_RATIO.val \in {<<"1">>, <<"1", "0", "0">>} => pc # "fatal"
    /\ env.AFL_INST_RATIO.val \in {<<"0">>, <<"1", "0", "1">>, <<"a">>} => pc = "fatal"

\* C5 happens: the string "50a" was accepted as 50 and the pass ran to its end.
C5_Witness ==
  /\ pc = "done"
  /\ env.AFL_INST_RATIO = SetTo(<<"5", "0", "a">>)
  /\ inst_ratio = 50
  /\ injected # {}

\* The configuration is valid: no ratio string, or one the check accepts.
ValidConfig ==
  ~env.AFL_INST_RATIO.set \/ LeadingInteger(env.AFL_INST_RATIO.val)

\* C8: under a valid configuration the pass never fails and never stops short
\* of returning true; when output is not suppressed it ends with exactly one
\* message after the banner: the warning if no block received the sequence,
\* otherwise the summary with the number of blocks that did. Suppressed, it
\* writes nothing.
C8_CompletesWithOneMessage ==
  /\ ValidConfig => (pc # "fatal" /\ (pc # "done" => ENABLED Next))
  /\ pc # "done" => ret = "none"
  /\ pc = "done" =>
       /\ ret = "true"
       /\ ValidConfig
       /\ IF env.tty /\ ~env.AFL_QUIET
          THEN /\ Len(out) = 2
               /\ out[1] = BannerMsg
               /\ out[2].kind = (IF injected = {} THEN "WARNF" ELSE "OKF")
               /\ out[2].n = Cardinality(injected)
          ELSE out = <<>>

\* C8 happens: the pass is over on a module of no function, and the warning
\* is the one message after the banner.
C8_Witness ==
  /\ pc = "done"
  /\ M = <<>>
  /\ ret = "true"
  /\ out = <<BannerMsg, WarnMsg>>

\* ------------------------------------------- properties of the injected sequence

\* One thread runs and is between two sequences.
SingleQuiescent ==
  /\ threads = {1}
  /\ tpc[1] = "idle"
  /\ ~crashed

\* C6: in a single-threaded run from an all-zero map, after n sequences (n
\* below the capacity) slot 0 holds n, the next free index, and the identities
\* of the n executed blocks stand in slots of index >= 1, in execution order.
C6_AllIdentitiesRecorded ==
  (SingleQuiescent /\ started < MapSlots) =>
    /\ map[0] = started
    /\ \E pos \in [1..started -> 1..(MapSlots - 1)] :
         /\ \A k \in 1..started : map[pos[k]] = log[k]
         /\ \A j, k \in 1..started : j < k => pos[j] < pos[k]

\* C7 as stated, in a run of one thread already: no identity store ever lands
\* outside the map, and none ends the program.
C7_NeverOutside ==
  threads = {1} => (lastStore.hit /\ ~crashed)

\* C7, amended: the identity store is unchecked. It goes to byte offset
\* 8 * offset, inside the map exactly when the offset read from slot 0 is below
\* the capacity; at or beyond the capacity it is an out-of-bounds store, which
\* may end the program, and it never wraps into the map: the slots of index
\* >= 1 hold nothing but identities stored at their own offset.
C7_UncheckedStore ==
  /\ lastStore.byte = 8 * lastStore.off
  /\ lastStore.hit <=> lastStore.off < MapSlots
  /\ crashed => lastStore.off >= MapSlots
  /\ \A s \in 1..(MapSlots - 1) : map[s] \in Identities \cup {0}

\* C7 happens: one thread filled the map and its next store, at the offset
\* equal to the capacity, went outside and ended the program.
C7_Witness ==
  /\ threads = {1}
  /\ crashed
  /\ lastStore.off = MapSlots
  /\ ~lastStore.hit
  /\ map[0] = MapSlots

\* C9: with two or more threads, the value a thread has loaded from slot 0 is
\* a write offset no greater than the number of sequences started so far, and
\* never a block identity.
C9_LoadsAreOffsets ==
  Cardinality(threads) >= 2 =>
    \A t \in threads :
      tpc[t] # "idle" => (Counter[t] <= started /\ Counter[t] \notin Identities)

====
